---- MODULE Spec2Model ----
(***************************************************************************)
(* A model of the BusTub buffer pool manager                               *)
(* (src/src/buffer/buffer_pool_manager.cpp) together with the LRU-K        *)
(* replacer it owns (src/src/buffer/lru_k_replacer.cpp).                   *)
(*                                                                         *)
(* Every public operation of the pool holds latch_ for its whole body, so  *)
(* each is one atomic action.  The exception is FlushAllPages, which calls *)
(* the public FlushPage while it still owns latch_; it is modelled in two  *)
(* steps so that the second acquisition of the non-recursive std::mutex is *)
(* visible.  Runs are explored up to MaxSteps steps.                       *)
(*                                                                         *)
(* Three further specifications share the state: SpecReplacer calls the    *)
(* replacer directly, SpecThreads has several threads call into the pool,  *)
(* and SpecTrie applies Get, Put and Remove of the persistent trie         *)
(* (src/src/primer/trie.cpp) to the tries built from the empty one.        *)
(***************************************************************************)
EXTENDS Integers, Sequences, FiniteSets, TLC

\* ---------------------------------------------------------------- bounds
PoolSize  == 2      \* pool_size of the constructor
K         == 2      \* replacer_k of the constructor
MaxPageId == 2      \* page ids 0..MaxPageId are allocated / requested
MaxPin    == 2      \* cap on pin_count_
MaxTime   == 2      \* cap on the value read from the system clock
MaxHist   == 2      \* cap on the length of an access history
MaxData   == 1      \* page contents are 0 (zeroed) .. MaxData
MaxSteps  == 6      \* cap on the number of steps of a run
MaxReplacerSteps == 8   \* cap on the calls made on the replacer alone
NumThreads == 2     \* threads calling into the buffer pool concurrently
MaxThreadSteps == 6 \* cap on the steps of the concurrent callers
MaxChar    == 2     \* key code units are 1..MaxChar; 0 is the NUL code unit
MaxKeyLen  == 2     \* keys have 0..MaxKeyLen code units
MaxValue   == 2     \* stored values of a type are 1..MaxValue
MaxTrieSteps == 3   \* cap on the calls made on tries

\* ------------------------------------------------------------- constants
INVALID_PAGE_ID == -1
LONG_MAX        == 2147483647
NoFrame         == -1     \* the uninitialised frame_id_t found_frame_id
NullOpt         == -1     \* std::nullopt of GetKHistory
SIZE_MODULUS    == 1073741824  \* one more than the largest size_t, scaled down

NullNode        == 0      \* a null std::shared_ptr<const TrieNode>
NoCall          == [op |-> "none", page_id |-> -1, is_dirty |-> FALSE]

Frames     == 0 .. (PoolSize - 1)
Threads    == 1 .. NumThreads
PageIds    == 0 .. MaxPageId
ArgPageIds == {INVALID_PAGE_ID} \cup PageIds
DataVals   == 0 .. MaxData

VARIABLES
    pages_,         \* frame -> [page_id_, pin_count_, is_dirty_, data_]
    page_table_,    \* page id -> frame id (a function on the resident ids)
    free_list_,     \* sequence of frame ids
    next_page_id_,  \* next page id AllocatePage hands out
    replacer_,      \* [node_store_, curr_size_, current_timestamp_]
    disk,           \* the disk manager's pages: page id -> contents
    clock,          \* the last value std::chrono::system_clock::now() gave
    latch_,         \* "free" or "held"
    pc,             \* "idle", "FlushAllPages_151", "deadlocked", or the
                    \* process is gone: "aborted" (assert), "crashed"
    last,           \* the last call: [op, ret], its name and what it returned
    io,             \* the disk and frame-memory events of the last call
    steps,          \* the number of steps taken so far
    calls,          \* thread -> the public call it has entered, or NoCall
    pins,           \* page id -> successful NewPage/FetchPage less successful
                    \* UnpinPage calls on it since it became resident
    nodes,          \* the trie nodes allocated so far: id -> node
    root_           \* Trie::root_ of the current trie: a node id or NullNode

vars == << pages_, page_table_, free_list_, next_page_id_, replacer_, disk,
           clock, latch_, pc, last, io, steps, calls, pins, nodes, root_ >>

\* ------------------------------------------------------------- utilities
EmptyMap == [x \in {} |-> 0]

MapErase(m, k) == [x \in (DOMAIN m) \ {k} |-> m[x]]

MapAssign(m, k, v) == [x \in (DOMAIN m) \cup {k} |-> IF x = k THEN v ELSE m[x]]

\* All orders in which an unordered_map with key set S can be iterated.
Orders(S) ==
    { s \in [1 .. Cardinality(S) -> S] :
        \A i, j \in 1 .. Cardinality(S) : i # j => s[i] # s[j] }

\* system_clock::now(): non-decreasing, may repeat.  No read is allowed once
\* the cap is reached, so a repeated value is always a choice, never forced.
Now(c) == IF c < MaxTime THEN {c, c + 1} ELSE {}

\* ================================================================ replacer

NewReplacer ==
    [node_store_ |-> EmptyMap, curr_size_ |-> 0, current_timestamp_ |-> 0]

\* GetKHistory returning the most recent access whatever k is.
GetKHistory_Front(node, k) ==
    IF k \in 1 .. Len(node.history_) THEN node.history_[1] ELSE NullOpt

\* LRUKNode::GetKHistory: the k-th entry from the front (most recent first).
GetKHistory(node, k) ==
    IF k \in 1 .. Len(node.history_) THEN node.history_[k] ELSE NullOpt

\* One iteration of the loop of Evict over the node (fid, node).
EvictVisit(st, fid, node, now) ==
    IF node.is_evictable_
    THEN IF Len(node.history_) >= K
         THEN LET least_recent_ts == GetKHistory(node, K)
                  delta_ts == now - least_recent_ts
              IN  IF delta_ts > st.min_delta_ts
                  THEN [st EXCEPT !.min_delta_ts = delta_ts,
                                  !.frame_id = fid,
                                  !.evict = TRUE]
                  ELSE st
         ELSE LET least_recent_ts == node.history_[Len(node.history_)]
              IN  [evict |-> TRUE,
                   min_delta_ts |-> LONG_MAX,
                   frame_id |-> fid,
                   min_least_recent_ts |->
                       IF least_recent_ts < st.min_least_recent_ts
                       THEN least_recent_ts
                       ELSE st.min_least_recent_ts]
    ELSE st

RECURSIVE EvictScan(_, _, _, _, _)
EvictScan(store, order, i, st, now) ==
    IF i > Len(order)
    THEN st
    ELSE EvictScan(store, order, i + 1,
                   EvictVisit(st, order[i], store[order[i]], now), now)

\* LRUKReplacer::Evict, iterating node_store_ in `order`, the clock reading `now`.
Evict(r, order, now) ==
    LET st0 == [evict |-> FALSE, min_delta_ts |-> 0,
                min_least_recent_ts |-> LONG_MAX, frame_id |-> NoFrame]
        st  == EvictScan(r.node_store_, order, 1, st0, now)
    IN  [ok |-> st.evict,
         frame_id |-> st.frame_id,
         r |-> IF st.evict
               THEN [r EXCEPT !.node_store_ = MapErase(@, st.frame_id),
                              !.curr_size_ = @ - 1]
               ELSE r]

\* LRUKReplacer::RecordAccess at clock reading t.
RecordAccess(r, frame_id, t) ==
    IF frame_id \notin DOMAIN r.node_store_
    THEN [r EXCEPT !.current_timestamp_ = t,
                   !.node_store_ =
                       MapAssign(@, frame_id,
                                 [history_ |-> << t >>, is_evictable_ |-> FALSE])]
    ELSE [r EXCEPT !.current_timestamp_ = t,
                   !.node_store_[frame_id].history_ = << t >> \o @]

\* LRUKReplacer::SetEvictable.
SetEvictable(r, frame_id, set_evictable) ==
    IF frame_id \notin DOMAIN r.node_store_
    THEN r
    ELSE LET node == r.node_store_[frame_id]
         IN  IF node.is_evictable_ /\ ~set_evictable
             THEN [r EXCEPT !.node_store_[frame_id].is_evictable_ = FALSE,
                            !.curr_size_ = @ - 1]
             ELSE IF ~node.is_evictable_ /\ set_evictable
             THEN [r EXCEPT !.node_store_[frame_id].is_evictable_ = TRUE,
                            !.curr_size_ = @ + 1]
             ELSE r

\* LRUKReplacer::Remove: threw tells whether the exception was raised.
Remove(r, frame_id) ==
    IF frame_id \notin DOMAIN r.node_store_
    THEN [threw |-> FALSE, r |-> r]
    ELSE IF ~r.node_store_[frame_id].is_evictable_
    THEN [threw |-> TRUE, r |-> r]
    ELSE [threw |-> FALSE,
          r |-> [r EXCEPT !.node_store_ = MapErase(@, frame_id),
                          !.curr_size_ = @ - 1]]

\* LRUKReplacer::Size.
Size(r) == r.curr_size_

\* ============================================================= disk manager

WritePage(d, page_id, data) == [d EXCEPT ![page_id] = data]

ReadPage(d, page_id) == d[page_id]

\* ============================================================== buffer pool

\* PinPage without its SetEvictable(frame_id, false).
PinPage_NoSetEvictable(r, frame_id, t) == RecordAccess(r, frame_id, t)

\* BufferPoolManager::PinPage at clock reading t.
PinPage(r, frame_id, t) ==
    RecordAccess(SetEvictable(r, frame_id, FALSE), frame_id, t)

\* May frame_id take one more recorded access within the history cap?
CanRecord(frame_id) ==
    frame_id \in DOMAIN replacer_.node_store_
        => Len(replacer_.node_store_[frame_id].history_) < MaxHist

\* The write-back left out: the dirty flag is cleared and nothing is written.
VictimWriteBack_NoWrite(page, d) ==
    [page |-> [page EXCEPT !.is_dirty_ = FALSE], disk |-> d, io |-> << >>]

\* FindAvailableFrame, lines 44-47: a dirty victim is written to disk and its
\* dirty flag cleared.
VictimWriteBack(page, d) ==
    IF page.is_dirty_
    THEN [page |-> [page EXCEPT !.is_dirty_ = FALSE],
          disk |-> WritePage(d, page.page_id_, page.data_),
          io   |-> << << "write", page.page_id_, page.data_ >> >>]
    ELSE [page |-> page, disk |-> d, io |-> << >>]

\* BufferPoolManager::FindAvailableFrame.  Evict is called, and the clock read
\* (now), only when the free list is empty.
FindAvailableFrame(order, now) ==
    IF free_list_ # << >>
    THEN [find |-> TRUE, frame_id |-> Head(free_list_), src |-> "free",
          free_list |-> Tail(free_list_), replacer |-> replacer_,
          pages |-> pages_, page_table |-> page_table_, disk |-> disk,
          io |-> << >>]
    ELSE LET ev == Evict(replacer_, order, now)
         IN  IF ev.ok
             THEN LET page == pages_[ev.frame_id]
                      wb   == VictimWriteBack(page, disk)
                  IN  [find |-> TRUE, frame_id |-> ev.frame_id, src |-> "evict",
                       free_list |-> free_list_, replacer |-> ev.r,
                       pages |-> [pages_ EXCEPT ![ev.frame_id] = wb.page],
                       page_table |-> MapErase(page_table_, page.page_id_),
                       disk |-> wb.disk,
                       io |-> wb.io]
             ELSE [find |-> FALSE, frame_id |-> NoFrame, src |-> "none",
                   free_list |-> free_list_, replacer |-> replacer_,
                   pages |-> pages_, page_table |-> page_table_, disk |-> disk,
                   io |-> << >>]

\* The state of the frame NewPage installs page_id in (lines 72-74).
NewPageFrame(page, page_id) ==
    [page EXCEPT !.page_id_ = page_id, !.data_ = 0, !.pin_count_ = 1]

\* The state of the frame FetchPage reads page_id into (lines 104-106).
FetchPageFrame(page, page_id, data) ==
    [page EXCEPT !.data_ = data, !.page_id_ = page_id, !.pin_count_ = 1]

\* BufferPoolManager::NewPage.
NewPage ==
    /\ latch_ = "free" /\ pc = "idle"
    /\ next_page_id_ <= MaxPageId
    /\ \E order \in Orders(DOMAIN replacer_.node_store_) :
       \E t1 \in (IF free_list_ = << >> THEN Now(clock) ELSE {clock}) :
         LET fa == FindAvailableFrame(order, t1)
         IN  IF ~fa.find
             THEN /\ clock' = t1
                  /\ last' = [op |-> "NewPage", ret |-> "nullptr"]
                  /\ io' = << >>
                  /\ UNCHANGED << pages_, page_table_, free_list_,
                                  next_page_id_, replacer_, disk >>
             ELSE \E t2 \in Now(t1) :
                  LET f   == fa.frame_id
                      pid == next_page_id_
                  IN  /\ clock' = t2
                      /\ next_page_id_' = next_page_id_ + 1
                      /\ pages_' = [fa.pages EXCEPT
                                      ![f] = NewPageFrame(@, pid)]
                      /\ replacer_' = PinPage(fa.replacer, f, t2)
                      /\ page_table_' = MapAssign(fa.page_table, pid, f)
                      /\ free_list_' = fa.free_list
                      /\ disk' = fa.disk
                      /\ io' = fa.io \o << << "reset", f, 0 >> >>
                      /\ last' = [op |-> "NewPage", ret |-> "page"]
    /\ UNCHANGED << latch_, pc >>

\* BufferPoolManager::FetchPage.
FetchPage(page_id) ==
    /\ latch_ = "free" /\ pc = "idle"
    /\ IF page_id \in DOMAIN page_table_
       THEN LET f == page_table_[page_id]
            IN  /\ pages_[f].pin_count_ < MaxPin
                /\ CanRecord(f)
                /\ \E t \in Now(clock) :
                     /\ clock' = t
                     /\ pages_' = [pages_ EXCEPT ![f].pin_count_ = @ + 1]
                     /\ replacer_' = PinPage(replacer_, f, t)
                /\ last' = [op |-> "FetchPage", ret |-> "page"]
                /\ io' = << >>
                /\ UNCHANGED << page_table_, free_list_, next_page_id_, disk >>
       ELSE \E order \in Orders(DOMAIN replacer_.node_store_) :
            \E t1 \in (IF free_list_ = << >> THEN Now(clock) ELSE {clock}) :
              LET fa == FindAvailableFrame(order, t1)
              IN  IF ~fa.find
                  THEN /\ clock' = t1
                       /\ last' = [op |-> "FetchPage", ret |-> "nullptr"]
                       /\ io' = << >>
                       /\ UNCHANGED << pages_, page_table_, free_list_,
                                       next_page_id_, replacer_, disk >>
                  ELSE \E t2 \in Now(t1) :
                       LET f    == fa.frame_id
                           data == ReadPage(fa.disk, page_id)
                       IN  /\ clock' = t2
                           /\ pages_' = [fa.pages EXCEPT
                                           ![f] = FetchPageFrame(@, page_id, data)]
                           /\ page_table_' = MapAssign(fa.page_table, page_id, f)
                           /\ replacer_' = PinPage(fa.replacer, f, t2)
                           /\ free_list_' = fa.free_list
                           /\ disk' = fa.disk
                           /\ io' = fa.io \o << << "read", page_id, data >> >>
                           /\ last' = [op |-> "FetchPage", ret |-> "page"]
                           /\ UNCHANGED next_page_id_
    /\ UNCHANGED << latch_, pc >>

\* is_dirty assigned to the flag instead of or-ed into it.
UnpinFrame_Assign(page, is_dirty) ==
    [page EXCEPT !.pin_count_ = @ - 1, !.is_dirty_ = is_dirty]

\* The frame after a successful UnpinPage (lines 124 and 128).
UnpinFrame(page, is_dirty) ==
    [page EXCEPT !.pin_count_ = @ - 1, !.is_dirty_ = @ \/ is_dirty]

\* BufferPoolManager::UnpinPage.
UnpinPage(page_id, is_dirty) ==
    /\ latch_ = "free" /\ pc = "idle"
    /\ IF page_id \notin DOMAIN page_table_
       THEN /\ last' = [op |-> "UnpinPage", ret |-> "false"]
            /\ UNCHANGED << pages_, replacer_ >>
       ELSE LET f == page_table_[page_id]
            IN  IF pages_[f].pin_count_ = 0
                THEN /\ last' = [op |-> "UnpinPage", ret |-> "false"]
                     /\ UNCHANGED << pages_, replacer_ >>
                ELSE /\ pages_' = [pages_ EXCEPT ![f] = UnpinFrame(@, is_dirty)]
                     /\ replacer_' = IF pages_'[f].pin_count_ = 0
                                     THEN SetEvictable(replacer_, f, TRUE)
                                     ELSE replacer_
                     /\ last' = [op |-> "UnpinPage", ret |-> "true"]
    /\ io' = << >>
    /\ UNCHANGED << page_table_, free_list_, next_page_id_, disk, clock,
                    latch_, pc >>

\* The body of FlushPage (lines 134-145) on st = [pages, disk, io, ret].
FlushPageBody(st, page_id) ==
    IF page_id = INVALID_PAGE_ID
    THEN [st EXCEPT !.ret = "false"]
    ELSE IF page_id \notin DOMAIN page_table_
    THEN [st EXCEPT !.ret = "false"]
    ELSE LET f == page_table_[page_id]
         IN  [pages |-> [st.pages EXCEPT ![f].is_dirty_ = FALSE],
              disk  |-> WritePage(st.disk, page_id, st.pages[f].data_),
              io    |-> Append(st.io, << "write", page_id, st.pages[f].data_ >>),
              ret   |-> "true"]

\* BufferPoolManager::FlushPage.
FlushPage(page_id) ==
    /\ latch_ = "free" /\ pc = "idle"
    /\ LET st == FlushPageBody([pages |-> pages_, disk |-> disk, io |-> << >>,
                                ret |-> "false"], page_id)
       IN  /\ pages_' = st.pages
           /\ disk' = st.disk
           /\ io' = st.io
           /\ last' = [op |-> "FlushPage", ret |-> st.ret]
    /\ UNCHANGED << page_table_, free_list_, next_page_id_, replacer_, clock,
                    latch_, pc >>

RECURSIVE FlushEach(_, _, _)
FlushEach(order, i, st) ==
    IF i > Len(order)
    THEN st
    ELSE FlushEach(order, i + 1, FlushPageBody(st, order[i]))

\* BufferPoolManager::FlushAllPages, line 149: take latch_ and enter the loop.
\* With an empty page table the loop body never runs and the call returns.
FlushAllPagesBegin ==
    /\ latch_ = "free" /\ pc = "idle"
    /\ IF DOMAIN page_table_ = {}
       THEN /\ last' = [op |-> "FlushAllPages", ret |-> "void"]
            /\ UNCHANGED << latch_, pc >>
       ELSE /\ last' = [op |-> "FlushAllPages", ret |-> "pending"]
            /\ latch_' = "held"
            /\ pc' = "FlushAllPages_151"
    /\ io' = << >>
    /\ UNCHANGED << pages_, page_table_, free_list_, next_page_id_, replacer_,
                    disk, clock >>

\* Line 151 calls FlushPage, whose line 133 locks latch_, a std::mutex the
\* calling thread already owns: undefined behaviour.  The outcomes a build
\* produces: the thread blocks forever on its own mutex.
FlushAllPagesDeadlock ==
    /\ pc = "FlushAllPages_151" /\ latch_ = "held"
    /\ pc' = "deadlocked"
    /\ last' = [op |-> "FlushAllPages", ret |-> "blocked"]
    /\ UNCHANGED << pages_, page_table_, free_list_, next_page_id_, replacer_,
                    disk, clock, latch_, io >>

\* ... or lock() reports the deadlock by throwing std::system_error, which
\* leaves FlushAllPages through the destructor of its unique_lock.
FlushAllPagesThrow ==
    /\ pc = "FlushAllPages_151" /\ latch_ = "held"
    /\ pc' = "idle"
    /\ latch_' = "free"
    /\ last' = [op |-> "FlushAllPages", ret |-> "exception"]
    /\ UNCHANGED << pages_, page_table_, free_list_, next_page_id_, replacer_,
                    disk, clock, io >>

\* ... or the lock is a no-op (a build whose mutex does nothing) and the loop
\* runs FlushPage on every key of page_table_, in some iteration order.
FlushAllPagesProceed ==
    /\ pc = "FlushAllPages_151" /\ latch_ = "held"
    /\ \E order \in Orders(DOMAIN page_table_) :
         LET st == FlushEach(order, 1, [pages |-> pages_, disk |-> disk,
                                        io |-> << >>, ret |-> "false"])
         IN  /\ pages_' = st.pages
             /\ disk' = st.disk
             /\ io' = st.io
    /\ pc' = "idle"
    /\ latch_' = "free"
    /\ last' = [op |-> "FlushAllPages", ret |-> "void"]
    /\ UNCHANGED << page_table_, free_list_, next_page_id_, replacer_, clock >>

\* emplace_back in place of emplace_front.
PutFree_Back(free_list, frame_id) == Append(free_list, frame_id)

\* DeletePage, line 169: the frame goes to the front of the free list.
PutFree(free_list, frame_id) == << frame_id >> \o free_list

\* BufferPoolManager::DeletePage.
DeletePage(page_id) ==
    /\ latch_ = "free" /\ pc = "idle"
    /\ IF page_id \notin DOMAIN page_table_
       THEN /\ last' = [op |-> "DeletePage", ret |-> "false"]
            /\ UNCHANGED << page_table_, replacer_, free_list_ >>
       ELSE LET f == page_table_[page_id]
            IN  IF pages_[f].pin_count_ > 0
                THEN /\ last' = [op |-> "DeletePage", ret |-> "false"]
                     /\ UNCHANGED << page_table_, replacer_, free_list_ >>
                ELSE LET rm == Remove(replacer_, f)
                     IN  /\ page_table_' = MapErase(page_table_, page_id)
                         /\ replacer_' = rm.r
                         /\ free_list_' = IF rm.threw THEN free_list_
                                          ELSE PutFree(free_list_, f)
                         /\ last' = [op |-> "DeletePage", ret |-> IF rm.threw THEN "exception" ELSE "true"]
    /\ io' = << >>
    /\ UNCHANGED << pages_, next_page_id_, disk, clock, latch_, pc >>

\* A caller that holds a pin writes into the frame through the Page * it got.
WriteData(frame_id, data) ==
    /\ pages_[frame_id].pin_count_ > 0
    /\ pages_[frame_id].data_ # data
    /\ pages_' = [pages_ EXCEPT ![frame_id].data_ = data]
    /\ last' = [op |-> "WriteData", ret |-> "void"]
    /\ io' = << >>
    /\ UNCHANGED << page_table_, free_list_, next_page_id_, replacer_, disk,
                    clock, latch_, pc >>

\* ------------------------------------------------------------ specification
\* BufferPoolManager::BufferPoolManager.
Init ==
    /\ pages_ = [f \in Frames |->
                    [page_id_ |-> INVALID_PAGE_ID, pin_count_ |-> 0,
                     is_dirty_ |-> FALSE, data_ |-> 0]]
    /\ page_table_ = EmptyMap
    /\ free_list_ = [i \in 1 .. PoolSize |-> i - 1]
    /\ next_page_id_ = 0
    /\ replacer_ = NewReplacer
    /\ disk = [p \in ArgPageIds |-> 0]
    /\ clock = 0
    /\ latch_ = "free"
    /\ pc = "idle"
    /\ last = [op |-> "init", ret |-> "void"]
    /\ io = << >>
    /\ steps = 0
    /\ calls = [t \in Threads |-> NoCall]
    /\ pins = [p \in ArgPageIds |-> 0]
    /\ nodes = EmptyMap
    /\ root_ = NullNode

\* One more step, within the cap, of a single caller that uses no trie.
Tick ==
    /\ steps < MaxSteps
    /\ steps' = steps + 1
    /\ UNCHANGED << calls, pins, nodes, root_ >>

Next ==
    \/ Tick /\ NewPage
    \/ Tick /\ \E p \in ArgPageIds : FetchPage(p)
    \/ Tick /\ \E p \in ArgPageIds, d \in BOOLEAN : UnpinPage(p, d)
    \/ Tick /\ \E p \in ArgPageIds : FlushPage(p)
    \/ Tick /\ FlushAllPagesBegin
    \/ Tick /\ FlushAllPagesDeadlock
    \/ Tick /\ FlushAllPagesThrow
    \/ Tick /\ FlushAllPagesProceed
    \/ Tick /\ \E p \in ArgPageIds : DeletePage(p)
    \/ Tick /\ \E f \in Frames, v \in DataVals : WriteData(f, v)

Spec == Init /\ [][Next]_vars

\* The calls of the statement "after any sequence of fetch_page, new_page and
\* unpin_page calls".
NextPin ==
    \/ Tick /\ NewPage
    \/ Tick /\ \E p \in ArgPageIds : FetchPage(p)
    \/ Tick /\ \E p \in ArgPageIds, d \in BOOLEAN : UnpinPage(p, d)

SpecPin == Init /\ [][NextPin]_vars

\* ------------------------------------------------------------------ claims

IsEvictable(r, f) ==
    f \in DOMAIN r.node_store_ /\ r.node_store_[f].is_evictable_

InFreeList(f) == \E i \in 1 .. Len(free_list_) : free_list_[i] = f

ResidentFrames == { page_table_[p] : p \in DOMAIN page_table_ }

PoolState == << pages_, page_table_, free_list_, next_page_id_, replacer_, disk >>

\* C1: a frame whose pin_count is greater than 0 is never evictable in the
\* replacer, so neither Evict nor FindAvailableFrame, whatever the iteration
\* order and the clock reading, hands out a frame that is still pinned.
C1_PinnedNeverEvictable ==
    /\ \A f \in Frames :
         pages_[f].pin_count_ > 0 => ~IsEvictable(replacer_, f)
    /\ \A order \in Orders(DOMAIN replacer_.node_store_) :
       \A now \in {clock, clock + 1} :
         LET ev == Evict(replacer_, order, now)
             fa == FindAvailableFrame(order, now)
         IN  /\ ev.ok => pages_[ev.frame_id].pin_count_ = 0
             /\ fa.find => pages_[fa.frame_id].pin_count_ = 0

\* A full pool in which one frame is pinned and another is up for eviction.
C1_Witness ==
    /\ free_list_ = << >>
    /\ \E f \in Frames : pages_[f].pin_count_ > 0
    /\ \E f \in Frames : IsEvictable(replacer_, f)
    /\ \E order \in Orders(DOMAIN replacer_.node_store_) :
         FindAvailableFrame(order, clock + 1).src = "evict"

\* C2: at every public-call boundary each frame is either in the free list or
\* the value of exactly one page-table entry, never both and never neither,
\* so |free_list| + |page_table| = pool_size.
C2_FramePartition ==
    pc = "idle" =>
        /\ \A f \in Frames :
             LET keys == { p \in DOMAIN page_table_ : page_table_[p] = f }
             IN  \/ InFreeList(f) /\ keys = {}
                 \/ ~InFreeList(f) /\ Cardinality(keys) = 1
        /\ Len(free_list_) + Cardinality(DOMAIN page_table_) = PoolSize

\* C3: after any sequence of fetch_page, new_page and unpin_page calls the
\* replacer's size() is the number of resident frames whose pin_count is 0.
C3_SizeCountsUnpinnedResidents ==
    Size(replacer_) =
        Cardinality({ f \in ResidentFrames : pages_[f].pin_count_ = 0 })

\* A step of NewPage, or of FetchPage of a page that is not resident, that takes
\* frame f from the replacer: the free list is empty and f goes from unpinned
\* to pinned.
ReusesEvicted(f) ==
    /\ free_list_ = << >>
    /\ pages_[f].pin_count_ = 0
    /\ pages_'[f].pin_count_ = 1
    /\ \/ NewPage
       \/ \E p \in ArgPageIds \ DOMAIN page_table_ : FetchPage(p)

\* C4: when NewPage or FetchPage reuses a frame evicted while dirty, the disk
\* manager gets write_page(old page id, old contents) before the frame is
\* zeroed or read into, and the disk holds those contents under the old id.
C4_DirtyVictimWrittenFirst ==
    [][ \A f \in Frames :
          (ReusesEvicted(f) /\ pages_[f].is_dirty_) =>
              /\ Len(io') = 2
              /\ io'[1] = << "write", pages_[f].page_id_, pages_[f].data_ >>
              /\ io'[2][1] \in {"reset", "read"}
              /\ disk'[pages_[f].page_id_] = pages_[f].data_
       ]_vars

\* A dirty victim with non-zero contents has been written back and its frame
\* given to another page.
C4_Witness ==
    /\ Len(io) = 2
    /\ io[1][1] = "write"
    /\ io[1][3] # 0
    /\ io[2][1] \in {"reset", "read"}
    /\ last.ret = "page"

\* C5: UnpinPage returns false and changes nothing when the page is not
\* resident or its pin_count is 0; otherwise it returns true, takes exactly 1
\* from pin_count, makes the frame evictable exactly when pin_count reaches
\* 0, and sets dirty to (old dirty OR is_dirty).
C5_UnpinPage ==
    [][ \A p \in ArgPageIds, d \in BOOLEAN :
          UnpinPage(p, d) =>
            IF p \notin DOMAIN page_table_
               \/ pages_[page_table_[p]].pin_count_ = 0
            THEN /\ last'.ret = "false"
                 /\ UNCHANGED PoolState
            ELSE LET f == page_table_[p]
                 IN  /\ last'.ret = "true"
                     /\ pages_'[f].pin_count_ = pages_[f].pin_count_ - 1
                     /\ pages_'[f].is_dirty_ = (pages_[f].is_dirty_ \/ d)
                     /\ IsEvictable(replacer_', f) <=> pages_'[f].pin_count_ = 0
                     /\ Size(replacer_') =
                            Size(replacer_)
                              + (IF pages_'[f].pin_count_ = 0 THEN 1 ELSE 0)
                     /\ pages_'[f].page_id_ = pages_[f].page_id_
                     /\ pages_'[f].data_ = pages_[f].data_
                     /\ \A g \in Frames \ {f} :
                          /\ pages_'[g] = pages_[g]
                          /\ IsEvictable(replacer_', g) <=> IsEvictable(replacer_, g)
                     /\ UNCHANGED << page_table_, free_list_, next_page_id_, disk >>
       ]_vars

\* An UnpinPage has returned true; one dirty frame is at pin_count 0 and
\* evictable, another, pinned twice and unpinned once, is still pinned and
\* not evictable.
C5_Witness ==
    /\ last = [op |-> "UnpinPage", ret |-> "true"]
    /\ \E f \in ResidentFrames :
         /\ pages_[f].pin_count_ = 0
         /\ pages_[f].is_dirty_
         /\ IsEvictable(replacer_, f)
    /\ \E f \in ResidentFrames :
         /\ pages_[f].pin_count_ = 1
         /\ Len(replacer_.node_store_[f].history_) = 2
         /\ ~IsEvictable(replacer_, f)

\* C6: DeletePage of a resident page returns false and changes nothing while
\* pin_count > 0; at pin_count 0 it returns true, removes the page from the
\* page table, drops the frame's record from the replacer (size() goes down by
\* 1) and puts the frame at the front of the free list, so that it is the
\* frame FindAvailableFrame hands out next.
C6_DeletePageResident ==
    [][ \A p \in DOMAIN page_table_ :
          DeletePage(p) =>
            LET f == page_table_[p]
            IN  IF pages_[f].pin_count_ > 0
                THEN /\ last'.ret = "false"
                     /\ UNCHANGED PoolState
                ELSE /\ last'.ret = "true"
                     /\ page_table_' = MapErase(page_table_, p)
                     /\ f \notin DOMAIN replacer_'.node_store_
                     /\ Size(replacer_') = Size(replacer_) - 1
                     /\ \A g \in Frames \ {f} :
                          /\ g \in DOMAIN replacer_'.node_store_
                               <=> g \in DOMAIN replacer_.node_store_
                          /\ g \in DOMAIN replacer_.node_store_ =>
                               replacer_'.node_store_[g] = replacer_.node_store_[g]
                     /\ free_list_' = << f >> \o free_list_
                     /\ \A order \in Orders(DOMAIN replacer_'.node_store_) :
                          (FindAvailableFrame(order, clock).frame_id)' = f
       ]_vars

\* A DeletePage has returned true and the free list holds the freed frame in
\* front of another one.
C6_Witness ==
    /\ last = [op |-> "DeletePage", ret |-> "true"]
    /\ Len(free_list_) >= 2

\* C7: DeletePage of a page that is not resident returns true and changes
\* nothing.
C7_DeletePageNotResident ==
    [][ \A p \in ArgPageIds \ DOMAIN page_table_ :
          DeletePage(p) => (last'.ret = "true" /\ UNCHANGED PoolState)
       ]_vars

\* C8: a successful NewPage, and a successful FetchPage of a page that was not
\* resident, leaves the chosen frame with pin_count = 1 and dirty = false,
\* wherever the frame came from.
C8_FreshFramePinnedAndClean ==
    [][ /\ (NewPage /\ last'.ret = "page") =>
             LET f == page_table_'[next_page_id_]
             IN  pages_'[f].pin_count_ = 1 /\ ~pages_'[f].is_dirty_
        /\ \A p \in ArgPageIds \ DOMAIN page_table_ :
             (FetchPage(p) /\ last'.ret = "page") =>
                 LET f == page_table_'[p]
                 IN  pages_'[f].pin_count_ = 1 /\ ~pages_'[f].is_dirty_
       ]_vars

\* No frame can be had: the free list is empty and no frame is evictable.
NoFrameToHave ==
    free_list_ = << >> /\ \A f \in Frames : ~IsEvictable(replacer_, f)

\* C9: NewPage, and FetchPage of a page that is not resident, fail exactly
\* when the free list is empty and the replacer has no evictable frame, and a
\* failing call changes nothing.
C9_FailsExactlyWhenNoFrame ==
    [][ /\ NewPage =>
             /\ last'.ret = "nullptr" <=> NoFrameToHave
             /\ last'.ret = "nullptr" => UNCHANGED PoolState
        /\ \A p \in ArgPageIds \ DOMAIN page_table_ :
             FetchPage(p) =>
                 /\ last'.ret = "nullptr" <=> NoFrameToHave
                 /\ last'.ret = "nullptr" => UNCHANGED PoolState
       ]_vars

\* C10: FlushAllPages, called with one or more resident pages, returns, and
\* on return every resident page has been written once and is clean, with the
\* page table, the free list and the pin counts as they were.
C10_FlushAllPagesCompletes ==
    [][ pc = "FlushAllPages_151" =>
          /\ pc' = "idle"
          /\ last'.ret = "void"
          /\ \A p \in DOMAIN page_table_ :
               /\ ~pages_'[page_table_[p]].is_dirty_
               /\ Cardinality({ i \in 1 .. Len(io') :
                                  io'[i][1] = "write" /\ io'[i][2] = p }) = 1
          /\ UNCHANGED << page_table_, free_list_ >>
          /\ \A f \in Frames : pages_'[f].pin_count_ = pages_[f].pin_count_
       ]_vars

\* ===================================================== the replacer on its own
\* The public calls of LRUKReplacer made directly, with frame ids on both
\* sides of [0, replacer_size_), every iteration order of node_store_ and
\* every clock reading.  The buffer pool's own state stays as constructed.

\* frame_id_t arguments: one below the range, the range, one above it.
FrameArgs == -1 .. PoolSize

\* static_cast<size_t>(frame_id) for a frame_id_t: a negative value wraps
\* around to the top of the range of size_t.
ToSizeT(frame_id) ==
    IF frame_id >= 0 THEN frame_id ELSE SIZE_MODULUS + frame_id

\* The condition of the BUSTUB_ASSERT that opens RecordAccess, SetEvictable
\* and Remove; replacer_size_ is the constructor's num_frames.
FrameIdAssert(frame_id) ==
    frame_id >= 0 \/ ToSizeT(frame_id) <= PoolSize

\* What a call on the replacer leaves alone.
PoolUntouched ==
    UNCHANGED << pages_, page_table_, free_list_, next_page_id_, disk,
                 latch_, io >>

\* A failed BUSTUB_ASSERT aborts the process: nothing is changed and no
\* further call is made.
AssertFails(op) ==
    /\ pc' = "aborted"
    /\ last' = [op |-> op, ret |-> "abort"]
    /\ UNCHANGED << replacer_, clock >>
    /\ PoolUntouched

ReplacerRecordAccess(frame_id) ==
    /\ pc = "idle"
    /\ IF FrameIdAssert(frame_id)
       THEN /\ CanRecord(frame_id)
            /\ \E t \in Now(clock) :
                 /\ replacer_' = RecordAccess(replacer_, frame_id, t)
                 /\ clock' = t
            /\ last' = [op |-> "RecordAccess", ret |-> "void"]
            /\ pc' = pc
            /\ PoolUntouched
       ELSE AssertFails("RecordAccess")

ReplacerSetEvictable(frame_id, set_evictable) ==
    /\ pc = "idle"
    /\ IF FrameIdAssert(frame_id)
       THEN /\ replacer_' = SetEvictable(replacer_, frame_id, set_evictable)
            /\ last' = [op |-> "SetEvictable", ret |-> "void"]
            /\ UNCHANGED << clock, pc >>
            /\ PoolUntouched
       ELSE AssertFails("SetEvictable")

ReplacerRemove(frame_id) ==
    /\ pc = "idle"
    /\ IF FrameIdAssert(frame_id)
       THEN LET rm == Remove(replacer_, frame_id)
            IN  /\ replacer_' = rm.r
                /\ last' = [op |-> "Remove",
                            ret |-> IF rm.threw THEN "throw" ELSE "void"]
                /\ UNCHANGED << clock, pc >>
                /\ PoolUntouched
       ELSE AssertFails("Remove")

ReplacerEvict ==
    /\ pc = "idle"
    /\ \E order \in Orders(DOMAIN replacer_.node_store_) :
       \E now \in Now(clock) :
         LET ev == Evict(replacer_, order, now)
         IN  /\ replacer_' = ev.r
             /\ clock' = now
             /\ last' = [op |-> "Evict",
                         ret |-> IF ev.ok THEN "true" ELSE "false"]
    /\ UNCHANGED pc
    /\ PoolUntouched

\* One more call on the replacer, within the cap.
TickReplacer ==
    /\ steps < MaxReplacerSteps
    /\ steps' = steps + 1
    /\ UNCHANGED << calls, pins, nodes, root_ >>

NextReplacer ==
    \/ TickReplacer /\ \E f \in FrameArgs : ReplacerRecordAccess(f)
    \/ TickReplacer /\ \E f \in FrameArgs, b \in BOOLEAN :
                          ReplacerSetEvictable(f, b)
    \/ TickReplacer /\ \E f \in FrameArgs : ReplacerRemove(f)
    \/ TickReplacer /\ ReplacerEvict

SpecReplacer == Init /\ [][NextReplacer]_vars

\* The evictable frames the replacer tracks.
EvictableFrames(r) == { f \in DOMAIN r.node_store_ : IsEvictable(r, f) }

\* Fewer than k recorded accesses: backward k-distance +inf.
IsInf(r, f) == Len(r.node_store_[f].history_) < K

\* The timestamp of the k-th most recent access (histories are newest first).
KthRecent(r, f) == r.node_store_[f].history_[K]

\* The timestamp of the oldest recorded access.
Oldest(r, f) == r.node_store_[f].history_[Len(r.node_store_[f].history_)]

\* The clock readings an Evict called in the current state can get.
EvictReadings == {clock, clock + 1}

InfFrames(r) == { f \in EvictableFrames(r) : IsInf(r, f) }

\* C12: when two or more evictable frames have fewer than k accesses, Evict
\* returns the one among them whose oldest recorded access is earliest, for
\* every iteration order of node_store_.
C12_InfTieBreakEarliest ==
    Cardinality(InfFrames(replacer_)) >= 2 =>
      \A order \in Orders(DOMAIN replacer_.node_store_) :
      \A now \in EvictReadings :
        LET ev == Evict(replacer_, order, now)
        IN  /\ ev.ok
            /\ ev.frame_id \in InfFrames(replacer_)
            /\ \A g \in InfFrames(replacer_) :
                 Oldest(replacer_, ev.frame_id) <= Oldest(replacer_, g)

\* C13: RecordAccess of a frame id outside [0, pool_size), ids at or above
\* pool_size included, fails with the invalid-frame error and neither creates
\* nor changes any record.
C13_RecordAccessRejectsInvalidFrame ==
    [][ \A f \in FrameArgs \ Frames :
          ReplacerRecordAccess(f) =>
              /\ last'.ret = "abort"
              /\ replacer_' = replacer_
       ]_vars

\* C20: in every reachable replacer state, timestamps being non-decreasing
\* and possibly repeated, Evict returns a frame exactly when some tracked
\* frame is evictable (size() > 0); the frame it returns was evictable, its
\* record is gone, size() is 1 less and no other record has changed; when it
\* returns nothing the replacer is unchanged.
C20_EvictIffEvictable ==
    \A order \in Orders(DOMAIN replacer_.node_store_) :
    \A now \in EvictReadings :
      LET ev == Evict(replacer_, order, now)
      IN  /\ ev.ok <=> EvictableFrames(replacer_) # {}
          /\ ev.ok <=> Size(replacer_) > 0
          /\ ev.ok =>
               /\ ev.frame_id \in EvictableFrames(replacer_)
               /\ ev.r.node_store_ = MapErase(replacer_.node_store_, ev.frame_id)
               /\ Size(ev.r) = Size(replacer_) - 1
          /\ ~ev.ok => ev.r = replacer_

\* ======================================================= concurrent callers
\* Threads call NewPage, FetchPage, UnpinPage and DeletePage concurrently.
\* Each of these opens with std::unique_lock<std::mutex> l(latch_) and
\* holds it to its return, so a thread first enters its call (and waits for
\* latch_), and later runs the whole body in one step while the other
\* threads' calls are still waiting.

\* The calls a thread can make.
ThreadCalls ==
    { [op |-> "NewPage", page_id |-> INVALID_PAGE_ID, is_dirty |-> FALSE] }
    \cup { [op |-> "FetchPage", page_id |-> p, is_dirty |-> FALSE] :
             p \in PageIds }
    \cup { [op |-> "UnpinPage", page_id |-> p, is_dirty |-> d] :
             p \in PageIds, d \in BOOLEAN }
    \cup { [op |-> "DeletePage", page_id |-> p, is_dirty |-> FALSE] :
             p \in PageIds }

\* Thread t enters call c and waits for latch_.
ThreadEnter(t, c) ==
    /\ pc = "idle"
    /\ calls[t] = NoCall
    /\ calls' = [calls EXCEPT ![t] = c]
    /\ UNCHANGED << pages_, page_table_, free_list_, next_page_id_, replacer_,
                    disk, clock, latch_, pc, last, io, pins >>

\* What call c, having returned, adds to the count of page q.
PinDelta(c, q) ==
    IF c.op = "NewPage" /\ last'.ret = "page" /\ q = next_page_id_ THEN 1
    ELSE IF c.op = "FetchPage" /\ last'.ret = "page" /\ q = c.page_id THEN 1
    ELSE IF c.op = "UnpinPage" /\ last'.ret = "true" /\ q = c.page_id THEN -1
    ELSE 0

\* Thread t gets latch_, runs the body of its call and returns.
ThreadRun(t) ==
    LET c == calls[t]
    IN  /\ c # NoCall
        /\ \/ c.op = "NewPage" /\ NewPage
           \/ c.op = "FetchPage" /\ FetchPage(c.page_id)
           \/ c.op = "UnpinPage" /\ UnpinPage(c.page_id, c.is_dirty)
           \/ c.op = "DeletePage" /\ DeletePage(c.page_id)
        /\ calls' = [calls EXCEPT ![t] = NoCall]
        /\ pins' = [q \in ArgPageIds |->
                      IF q \notin DOMAIN page_table_'
                      THEN 0
                      ELSE (IF q \in DOMAIN page_table_ THEN pins[q] ELSE 0)
                             + PinDelta(c, q)]

TickThreads ==
    /\ steps < MaxThreadSteps
    /\ steps' = steps + 1
    /\ UNCHANGED << nodes, root_ >>

NextThreads ==
    \/ TickThreads /\ \E t \in Threads, c \in ThreadCalls : ThreadEnter(t, c)
    \/ TickThreads /\ \E t \in Threads : ThreadRun(t)

SpecThreads == Init /\ [][NextThreads]_vars

\* C14: under any interleaving of threads calling NewPage, FetchPage,
\* UnpinPage and DeletePage no pin or unpin is lost: the pin_count of a
\* resident page is the number of successful NewPage / FetchPage calls less
\* the number of successful UnpinPage calls on it since it became resident,
\* and while that number is positive the page stays resident in its frame.
C14_NoPinLost ==
    /\ [](\A p \in DOMAIN page_table_ :
            pages_[page_table_[p]].pin_count_ = pins[p])
    /\ [][ \A p \in DOMAIN page_table_ :
             pins[p] > 0 =>
                 /\ p \in DOMAIN page_table_'
                 /\ page_table_'[p] = page_table_[p]
          ]_vars

\* ==================================================================== trie
\* The persistent trie of src/src/primer/trie.cpp.  A node is
\* [children_, is_value_, value_]; nodes live in `nodes` under their identity
\* (what a shared_ptr points to), and a trie is the identity of its root, or
\* NullNode.  A value is << T, v >>, T being the type of the
\* TrieNodeWithValue<T> that carries it.

Chars    == 1 .. MaxChar
OobChars == 0 .. MaxChar
Keys     == UNION { [1 .. n -> Chars] : n \in 0 .. MaxKeyLen }
Types    == {"uint32_t", "std::string"}
Values   == { << T, v >> : T \in Types, v \in 1 .. MaxValue }
NoValue  == << "none", 0 >>
Nullptr  == << "nullptr", 0 >>

\* std::make_shared<TrieNode>().
EmptyNode == [children_ |-> EmptyMap, is_value_ |-> FALSE, value_ |-> NoValue]

\* TrieNode(children).
PlainNode(children) ==
    [children_ |-> children, is_value_ |-> FALSE, value_ |-> NoValue]

\* TrieNodeWithValue<T>(children, value).
ValueNode(children, value) ==
    [children_ |-> children, is_value_ |-> TRUE, value_ |-> value]

\* TrieNode::Clone / TrieNodeWithValue<T>::Clone: a copy with the same
\* children and, for a value node, the same value.
Clone(node) == node

\* The identity of the next node to be allocated in h.
NewId(h) == Cardinality(DOMAIN h) + 1

\* cursor->children_[c] = n (also insert and insert_or_assign).
SetChild(h, cursor, c, n) ==
    [h EXCEPT ![cursor].children_ = MapAssign(@, c, n)]

\* key[i] of the source (i counts from 0).  Reading key[0] of an empty
\* string_view is out of bounds: it yields the code unit oob.
KeyAt(key, i, oob) == IF i + 1 \in 1 .. Len(key) THEN key[i + 1] ELSE oob

\* key.length() > 0 ? key[key.length() - 1] : key[0].
LastChar(key, oob) == IF Len(key) > 0 THEN key[Len(key)] ELSE oob

\* The loop of Get from iteration i on: the node reached, or NullNode when a
\* child is missing.
RECURSIVE GetWalk(_, _, _, _, _, _)
GetWalk(h, cursor, key, i, len, oob) ==
    IF ~(len = 0 \/ i < len)
    THEN cursor
    ELSE LET c == KeyAt(key, i, oob)
         IN  IF c \notin DOMAIN h[cursor].children_
             THEN NullNode
             ELSE IF len = 0
             THEN h[cursor].children_[c]
             ELSE GetWalk(h, h[cursor].children_[c], key, i + 1, len, oob)

\* Trie::Get<T>(key) on the trie with root `root`.  crash: a null pointer
\* was dereferenced.
TrieGet(h, root, T, key, oob) ==
    IF root = NullNode
    THEN [crash |-> TRUE, ret |-> Nullptr]
    ELSE LET cursor == GetWalk(h, root, key, 0, Len(key), oob)
         IN  IF cursor = NullNode
             THEN [crash |-> FALSE, ret |-> Nullptr]
             ELSE IF h[cursor].is_value_ /\ h[cursor].value_[1] = T
             THEN [crash |-> FALSE, ret |-> h[cursor].value_]
             ELSE [crash |-> FALSE, ret |-> Nullptr]

\* The loop of Put from iteration i on: the nodes and the penultimate node.
RECURSIVE PutWalk(_, _, _, _, _)
PutWalk(h, cursor, key, i, len) ==
    IF ~(i < len)
    THEN [h |-> h, cursor |-> cursor]
    ELSE LET c == key[i + 1]
             n == NewId(h)
         IN  IF c \notin DOMAIN h[cursor].children_
             THEN PutWalk(SetChild(MapAssign(h, n, EmptyNode), cursor, c, n),
                          n, key, i + 1, len)
             ELSE PutWalk(SetChild(MapAssign(h, n, Clone(h[h[cursor].children_[c]])),
                                   cursor, c, n),
                          n, key, i + 1, len)

\* Trie::Put<T>(key, value): the nodes afterwards and the root of the result.
TriePut(h, root, key, value, oob) ==
    LET new_root  == NewId(h)
        h1        == MapAssign(h, new_root,
                               IF root = NullNode THEN EmptyNode
                                                  ELSE Clone(h[root]))
        w         == PutWalk(h1, new_root, key, 0, Len(key) - 1)
        last_char == LastChar(key, oob)
        n         == NewId(w.h)
        children  == IF last_char \notin DOMAIN w.h[w.cursor].children_
                     THEN EmptyMap
                     ELSE w.h[w.h[w.cursor].children_[last_char]].children_
    IN  [nodes |-> SetChild(MapAssign(w.h, n, ValueNode(children, value)),
                            w.cursor, last_char, n),
         root  |-> new_root]

\* The loop of Remove from iteration i on: found is FALSE when a child on the
\* way is missing.
RECURSIVE RemoveWalk(_, _, _, _, _, _)
RemoveWalk(h, cursor, key, i, len, oob) ==
    IF ~(len = -1 \/ i < len)
    THEN [found |-> TRUE, h |-> h, cursor |-> cursor]
    ELSE LET c == KeyAt(key, i, oob)
             n == NewId(h)
         IN  IF c \notin DOMAIN h[cursor].children_
             THEN [found |-> FALSE, h |-> h, cursor |-> cursor]
             ELSE LET h2 == SetChild(MapAssign(h, n,
                                       Clone(h[h[cursor].children_[c]])),
                                     cursor, c, n)
                  IN  IF len = -1
                      THEN [found |-> TRUE, h |-> h2, cursor |-> n]
                      ELSE RemoveWalk(h2, n, key, i + 1, len, oob)

\* Trie::Remove(key): the nodes afterwards and the root of the result.
\* crash: a null pointer was dereferenced (root_ at line 76, or the child
\* that children_[last_char] has just inserted at line 93).
TrieRemove(h, root, key, oob) ==
    IF root = NullNode
    THEN [crash |-> TRUE, nodes |-> h, root |-> root]
    ELSE LET new_root  == NewId(h)
             h1        == MapAssign(h, new_root, Clone(h[root]))
             w         == RemoveWalk(h1, new_root, key, 0, Len(key) - 1, oob)
             last_char == LastChar(key, oob)
         IN  IF ~w.found
             THEN [crash |-> FALSE, nodes |-> h, root |-> root]
             ELSE IF last_char \notin DOMAIN w.h[w.cursor].children_
             THEN [crash |-> TRUE, nodes |-> h, root |-> root]
             ELSE LET child == w.h[w.h[w.cursor].children_[last_char]]
                      n     == NewId(w.h)
                  IN  IF child.children_ = EmptyMap
                      THEN [crash |-> FALSE,
                            nodes |-> [w.h EXCEPT ![w.cursor].children_ =
                                                      MapErase(@, last_char)],
                            root  |-> new_root]
                      ELSE [crash |-> FALSE,
                            nodes |-> SetChild(MapAssign(w.h, n,
                                                 PlainNode(child.children_)),
                                               w.cursor, last_char, n),
                            root  |-> new_root]

\* What a call on a trie leaves alone.
TrieOnly ==
    UNCHANGED << pages_, page_table_, free_list_, next_page_id_, replacer_,
                 disk, clock, latch_, io, calls, pins >>

\* t.Get<T>(key) on the current trie.
CallGet(T, key, oob) ==
    /\ pc = "idle"
    /\ LET g == TrieGet(nodes, root_, T, key, oob)
       IN  /\ pc' = IF g.crash THEN "crashed" ELSE pc
           /\ last' = [op |-> "Get", key |-> key,
                       ret |-> IF g.crash THEN << "crash", 0 >> ELSE g.ret,
                       prev |-> root_]
    /\ UNCHANGED << nodes, root_ >>
    /\ TrieOnly

\* t = t.Put(key, value).
CallPut(key, value, oob) ==
    /\ pc = "idle"
    /\ LET t2 == TriePut(nodes, root_, key, value, oob)
       IN  /\ nodes' = t2.nodes
           /\ root_' = t2.root
    /\ last' = [op |-> "Put", key |-> key, ret |-> value, prev |-> root_]
    /\ UNCHANGED pc
    /\ TrieOnly

\* t = t.Remove(key).
CallRemove(key, oob) ==
    /\ pc = "idle"
    /\ LET t2 == TrieRemove(nodes, root_, key, oob)
       IN  /\ nodes' = t2.nodes
           /\ root_' = t2.root
           /\ pc' = IF t2.crash THEN "crashed" ELSE pc
           /\ last' = [op |-> "Remove", key |-> key,
                       ret |-> IF t2.crash THEN << "crash", 0 >> ELSE Nullptr,
                       prev |-> root_]
    /\ TrieOnly

TickTrie == steps < MaxTrieSteps /\ steps' = steps + 1

NextTrie ==
    \/ TickTrie /\ \E T \in Types, k \in Keys, c \in OobChars : CallGet(T, k, c)
    \/ TickTrie /\ \E k \in Keys, v \in Values, c \in OobChars : CallPut(k, v, c)
    \/ TickTrie /\ \E k \in Keys, c \in OobChars : CallRemove(k, c)

SpecTrie == Init /\ [][NextTrie]_vars

\* A Get that returned ret without failing.
Returned(ret) == [crash |-> FALSE, ret |-> ret]

\* C15: for every trie t (the empty one included), every non-empty key k and
\* all values v, v1, v2: t.put(k, v).get(k) = v; t.put(k, v1).put(k, v2)
\* .get(k) = v2; t.put(k, v).remove(k).get(k) is absent; and for every key
\* k' other than k, get(k') on t.put(k, v) and on t.put(k, v).remove(k)
\* returns what t.get(k') returns.
C15_PutGetRemoveLaws ==
    \A k \in Keys \ {<< >>}, v \in Values, c \in OobChars :
      LET t1 == TriePut(nodes, root_, k, v, c)
          t3 == TrieRemove(t1.nodes, t1.root, k, c)
      IN  /\ TrieGet(t1.nodes, t1.root, v[1], k, c) = Returned(v)
          /\ \A v2 \in Values :
               LET t2 == TriePut(t1.nodes, t1.root, k, v2, c)
               IN  TrieGet(t2.nodes, t2.root, v2[1], k, c) = Returned(v2)
          /\ ~t3.crash
          /\ \A T \in Types :
               TrieGet(t3.nodes, t3.root, T, k, c) = Returned(Nullptr)
          /\ \A k2 \in Keys \ {k}, T \in Types :
               /\ TrieGet(t1.nodes, t1.root, T, k2, c)
                    = TrieGet(nodes, root_, T, k2, c)
               /\ TrieGet(t3.nodes, t3.root, T, k2, c)
                    = TrieGet(nodes, root_, T, k2, c)

\* Paths of child edges, the NUL code unit included.
Paths == UNION { [1 .. n -> OobChars] : n \in 0 .. MaxKeyLen }

\* The node of the trie with root `node` at the end of path q from its i-th
\* edge on, or NullNode.
RECURSIVE NodeAt(_, _, _, _)
NodeAt(h, node, q, i) ==
    IF node = NullNode \/ i > Len(q)
    THEN node
    ELSE IF q[i] \notin DOMAIN h[node].children_
    THEN NullNode
    ELSE NodeAt(h, h[node].children_[q[i]], q, i + 1)

\* q is the path of a node on the way from the root to the node of key k.
OnPath(q, k) == Len(q) <= Len(k) /\ \A i \in 1 .. Len(q) : q[i] = k[i]

\* The trie (h2, root2) came from the trie (nodes, root_) by a put or remove
\* of key k that left (nodes, root_) as it was.
ReceiverKept(h2, root2, k) ==
    /\ \A n \in DOMAIN nodes : n \in DOMAIN h2 /\ h2[n] = nodes[n]
    /\ \A T \in Types, q \in Keys, c \in OobChars :
         TrieGet(h2, root_, T, q, c) = TrieGet(nodes, root_, T, q, c)
    /\ \A q \in Paths :
         (NodeAt(nodes, root_, q, 1) # NullNode /\ ~OnPath(q, k)) =>
             NodeAt(h2, root2, q, 1) = NodeAt(nodes, root_, q, 1)

\* C16: Put and Remove never modify the receiver or a node reachable from it:
\* after t2 = t1.put(k, v) or t2 = t1.remove(k) every get on t1 returns what
\* it returned before, every node of t1 has the same children and value, and
\* every node of t1 that is not on the path of k is the same node, by
\* identity, in t2.
C16_ReceiverUnmodified ==
    \A k \in Keys, c \in OobChars :
      /\ \A v \in Values :
           LET t2 == TriePut(nodes, root_, k, v, c)
           IN  ReceiverKept(t2.nodes, t2.root, k)
      /\ LET t2 == TrieRemove(nodes, root_, k, c)
         IN  ~t2.crash => ReceiverKept(t2.nodes, t2.root, k)

\* C17: for every trie t (the empty one included) and every key k that has
\* no node in t, whether its first, a middle or only its last code unit is
\* missing, t.remove(k) completes without failure and returns a trie on which
\* every get returns what it returns on t.
C17_RemoveOfMissingKey ==
    \A k \in Keys, c \in OobChars :
      NodeAt(nodes, root_, k, 1) = NullNode =>
          LET t2 == TrieRemove(nodes, root_, k, c)
          IN  /\ ~t2.crash
              /\ \A T \in Types, q \in Keys, c2 \in OobChars :
                   TrieGet(t2.nodes, t2.root, T, q, c2)
                     = TrieGet(nodes, root_, T, q, c2)

\* A value of type T is stored at key k of the current trie.
Stored(T, k) ==
    LET n == NodeAt(nodes, root_, k, 1)
    IN  n # NullNode /\ nodes[n].is_value_ /\ nodes[n].value_[1] = T

\* C18: Get on any trie, the empty trie with no root included, completes
\* without failure, and returns absent whenever no value is stored at the key.
C18_GetCompletes ==
    \A T \in Types, k \in Keys, c \in OobChars :
      LET g == TrieGet(nodes, root_, T, k, c)
      IN  /\ ~g.crash
          /\ ~Stored(T, k) => g.ret = Nullptr

\* The children of the root of the current trie; none for the empty trie.
RootChildren ==
    IF root_ = NullNode THEN EmptyMap ELSE nodes[root_].children_

\* C19: operations on the empty key act on the root node itself and on no
\* child edge: put("", v) returns a trie whose root is a value node carrying
\* v with the same children; get("") returns the root's value when the root
\* is a value node and absent otherwise; remove("") returns a trie whose root
\* is a non-value node with the same children.
C19_EmptyKeyActsOnRoot ==
    \A c \in OobChars :
      /\ \A v \in Values :
           LET t2 == TriePut(nodes, root_, << >>, v, c)
           IN  t2.nodes[t2.root] = ValueNode(RootChildren, v)
      /\ \A T \in Types :
           TrieGet(nodes, root_, T, << >>, c) =
               Returned(IF Stored(T, << >>) THEN nodes[root_].value_
                                            ELSE Nullptr)
      /\ root_ # NullNode =>
           LET t3 == TrieRemove(nodes, root_, << >>, c)
           IN  /\ ~t3.crash
               /\ t3.nodes[t3.root] = PlainNode(RootChildren)

====
